---- MODULE Spec2Model ----
(***************************************************************************)
(* The entity-component registry of src/src/lib.rs.                        *)
(*                                                                         *)
(* A HashMap is modelled as a function whose DOMAIN is its key set, a      *)
(* HashSet as a set, Option<T> as a sequence of length 0 (None) or 1       *)
(* (Some).  A component type (TypeId) is a string, a component value a     *)
(* small integer.  Every operation of Registry is an operator from a       *)
(* registry value to a result, and one action applies it to the state.     *)
(***************************************************************************)
EXTENDS Integers, Sequences, FiniteSets, TLC

\* ------------------------------------------------------------------ bounds

\* The largest value of the id counter's type (u64::MAX in the source),
\* scaled down so that the counter's whole range is explored.
EntityMax == 3

\* At most this many entity records at once (a cap on create).
MaxLive == 2

\* Longest component tuple given to create_with, longest type list of a view.
MaxTuple == 2

\* Once the id counter has wrapped, creates go on while it is below this.
MaxReissue == 2

\* ------------------------------------------------------------- data model

NULL_ENTITY == 0

Entity == 0..EntityMax

ComponentId == {"Position", "Velocity"}

\* The values a component of any type can take.
Values == {1, 2}

\* The closures handed to Patch::with by a caller: those whose result depends
\* on the old value (replace hands it the constant ones).
Funcs == { f \in [Values -> Values] : \E v, w \in Values : f[v] # f[w] }

None == <<>>

Some(v) == <<v>>

\* HashMap::insert / HashSet-keyed map update.
Put(map, key, value) ==
  [k \in (DOMAIN map) \cup {key} |-> IF k = key THEN value ELSE map[k]]

\* HashMap::remove.
Erase(map, key) == [k \in (DOMAIN map) \ {key} |-> map[k]]

EmptyMap == [k \in {} |-> 0]

\* A boxed HashMap<Entity, T>: elem is T, the type a downcast must name.
Storage(T, map) == [elem |-> T, map |-> map]

VARIABLES
  next,             \* Registry.next
  entities,         \* Registry.entities: Entity -> set of ComponentId
  component_pool,   \* Registry.component_pool: ComponentId -> Storage
  last,             \* history: the last operation called and what it met
  issued,           \* history: every id a create has returned
  stored,           \* history: the value last written for (entity, type)
  destroying        \* the destroy call in progress, when its steps are taken
                    \* one by one: None, or Some of its entity, the component
                    \* ids its loop has yet to visit, those visited, in order,
                    \* and the directory the call started from

vars == <<next, entities, component_pool, last, issued, stored, destroying>>

reg_vars == <<next, entities, component_pool>>

Registry(n, es, cp) == [next |-> n, entities |-> es, component_pool |-> cp]

self == Registry(next, entities, component_pool)

\* What an operation hands back: the registry after it, the returned value,
\* how often a closure ran, and whether the call panicked.
Ok(reg, ret, called) == [reg |-> reg, ret |-> ret, called |-> called, panic |-> FALSE]

Fatal(reg) == [reg |-> reg, ret |-> None, called |-> 0, panic |-> TRUE]

\* Registry::new
new == Registry(1, EmptyMap, EmptyMap)

\* ------------------------------------------------------------ operations

\* dyn Any downcast of a boxed storage to HashMap<Entity, T>.
downcast(storage, T) == IF storage.elem = T THEN Some(storage.map) ELSE None

\* Registry::exists
exists(reg, entity) == entity \in DOMAIN reg.entities

\* Registry::create.  `self.next += 1` on the largest id panics in a build
\* with overflow checks and wraps to 0 in a build without them.
create(reg, overflow_checks) ==
  LET entity == reg.next
      overflow == reg.next + 1 > EntityMax
      next1 == IF overflow THEN 0 ELSE reg.next + 1
  IN IF overflow /\ overflow_checks
       THEN Fatal(reg)
       ELSE Ok(Registry(next1, Put(reg.entities, entity, {}), reg.component_pool),
               Some(entity), 0)

\* destroy's loop without the is_empty test: an emptied pool stays.
RECURSIVE destroy_loop_keeps_empty(_, _, _)
destroy_loop_keeps_empty(cp, ids, entity) ==
  IF ids = {} THEN [cp |-> cp, panic |-> FALSE]
  ELSE LET component_id == CHOOSE id \in ids : TRUE IN
       IF component_id \notin DOMAIN cp
         THEN [cp |-> cp, panic |-> TRUE]
         ELSE destroy_loop_keeps_empty(
                Put(cp, component_id,
                    Storage(cp[component_id].elem, Erase(cp[component_id].map, entity))),
                ids \ {component_id}, entity)

\* destroy's loop deleting the pool of every type of the entity, emptied or
\* not.
RECURSIVE destroy_loop_drops_pools(_, _, _)
destroy_loop_drops_pools(cp, ids, entity) ==
  IF ids = {} THEN [cp |-> cp, panic |-> FALSE]
  ELSE LET component_id == CHOOSE id \in ids : TRUE IN
       IF component_id \notin DOMAIN cp
         THEN [cp |-> cp, panic |-> TRUE]
         ELSE destroy_loop_drops_pools(Erase(cp, component_id),
                                       ids \ {component_id}, entity)

\* The loop of Registry::destroy over the entity's component ids: cp is the
\* directory so far, ids the component ids not yet visited.
RECURSIVE destroy_loop(_, _, _)
destroy_loop(cp, ids, entity) ==
  IF ids = {} THEN [cp |-> cp, panic |-> FALSE]
  ELSE LET component_id == CHOOSE id \in ids : TRUE IN
       IF component_id \notin DOMAIN cp
         THEN [cp |-> cp, panic |-> TRUE]
         ELSE LET map1 == Erase(cp[component_id].map, entity)
                  cp1 == IF DOMAIN map1 = {}
                           THEN Erase(cp, component_id)
                           ELSE Put(cp, component_id, Storage(cp[component_id].elem, map1))
              IN destroy_loop(cp1, ids \ {component_id}, entity)

\* One iteration of the loop of Registry::destroy: the pool of component_id
\* loses the entity's entry and, when that empties it, is deleted.
destroy_iteration(cp, component_id, entity) ==
  IF component_id \notin DOMAIN cp
    THEN [cp |-> cp, panic |-> TRUE]
    ELSE LET map1 == Erase(cp[component_id].map, entity) IN
         [cp |-> IF DOMAIN map1 = {}
                   THEN Erase(cp, component_id)
                   ELSE Put(cp, component_id, Storage(cp[component_id].elem, map1)),
          panic |-> FALSE]

\* A destroy that takes the record out of the table at any point of its
\* loop.
loop_done_early(d) == TRUE

\* The for loop of Registry::destroy has visited every component id: the
\* statement after it, entities.remove, is next.
loop_done(d) == d.ids = {}

\* destroy that removes the record and skips the loop over its pools.
destroy_record_only(reg, entity) ==
  Ok(Registry(reg.next, Erase(reg.entities, entity), reg.component_pool), None, 0)

\* Registry::destroy
destroy(reg, entity) ==
  IF entity \in DOMAIN reg.entities
    THEN LET r == destroy_loop(reg.component_pool, reg.entities[entity], entity) IN
         IF r.panic
           THEN Fatal(Registry(reg.next, reg.entities, r.cp))
           ELSE Ok(Registry(reg.next, Erase(reg.entities, entity), r.cp), None, 0)
    ELSE Ok(Registry(reg.next, Erase(reg.entities, entity), reg.component_pool), None, 0)

\* add without the lookup of the entity's record: the value goes into the
\* pool whether or not the entity exists.
add_unchecked(reg, entity, Component, new_component) ==
  LET cp == reg.component_pool
      map == IF Component \in DOMAIN cp THEN cp[Component].map ELSE EmptyMap
      ids == IF entity \in DOMAIN reg.entities THEN reg.entities[entity] ELSE {}
  IN IF Component \in ids THEN Ok(reg, None, 0)
     ELSE Ok(Registry(reg.next,
                      IF entity \in DOMAIN reg.entities
                        THEN Put(reg.entities, entity, ids \cup {Component})
                        ELSE reg.entities,
                      Put(cp, Component,
                          Storage(Component, Put(map, entity, new_component)))),
             None, 0)

\* add that inserts the value although the entity already owns the type.
add_overwrites(reg, entity, Component, new_component) ==
  IF entity \in DOMAIN reg.entities
    THEN LET cp == reg.component_pool
             map == IF Component \in DOMAIN cp THEN cp[Component].map ELSE EmptyMap
         IN Ok(Registry(reg.next,
                        Put(reg.entities, entity, reg.entities[entity] \cup {Component}),
                        Put(cp, Component,
                            Storage(Component, Put(map, entity, new_component)))),
               None, 0)
    ELSE Ok(reg, None, 0)

\* Registry::add
add(reg, entity, Component, new_component) ==
  IF entity \in DOMAIN reg.entities /\ Component \notin reg.entities[entity]
    THEN LET es1 == Put(reg.entities, entity, reg.entities[entity] \cup {Component})
             cp == reg.component_pool
         IN IF Component \in DOMAIN cp
              THEN LET m == downcast(cp[Component], Component) IN
                   IF m = None
                     THEN Fatal(Registry(reg.next, es1, cp))
                     ELSE Ok(Registry(reg.next, es1,
                                Put(cp, Component,
                                    Storage(cp[Component].elem,
                                            Put(m[1], entity, new_component)))),
                             None, 0)
              ELSE Ok(Registry(reg.next, es1,
                         Put(cp, Component,
                             Storage(Component, Put(EmptyMap, entity, new_component)))),
                      None, 0)
    ELSE Ok(reg, None, 0)

\* remove that takes the type out of the record and leaves the pool alone.
remove_keeps_value(reg, entity, Component) ==
  IF entity \in DOMAIN reg.entities /\ Component \in reg.entities[entity]
    THEN Ok(Registry(reg.next,
                     Put(reg.entities, entity, reg.entities[entity] \ {Component}),
                     reg.component_pool),
            None, 0)
    ELSE Ok(reg, None, 0)

\* remove that deletes the directory entry of the type without the is_empty
\* test: the pool goes although other entities have entries in it.
remove_drops_pool(reg, entity, Component) ==
  IF entity \in DOMAIN reg.entities /\ Component \in reg.entities[entity]
    THEN Ok(Registry(reg.next,
                     Put(reg.entities, entity, reg.entities[entity] \ {Component}),
                     Erase(reg.component_pool, Component)),
            None, 0)
    ELSE Ok(reg, None, 0)

\* remove that empties the entity's record instead of taking the one type
\* out of it.
remove_clears_record(reg, entity, Component) ==
  IF entity \in DOMAIN reg.entities /\ Component \in reg.entities[entity]
    THEN LET cp == reg.component_pool
             map1 == Erase(cp[Component].map, entity)
         IN Ok(Registry(reg.next, Put(reg.entities, entity, {}),
                  IF DOMAIN map1 = {}
                    THEN Erase(cp, Component)
                    ELSE Put(cp, Component, Storage(cp[Component].elem, map1))),
               None, 0)
    ELSE Ok(reg, None, 0)

\* remove without the is_empty test: the pool stays in the directory when
\* its last entry goes.
remove_keeps_pool(reg, entity, Component) ==
  IF entity \in DOMAIN reg.entities /\ Component \in reg.entities[entity]
    THEN LET cp == reg.component_pool IN
         Ok(Registry(reg.next,
                     Put(reg.entities, entity, reg.entities[entity] \ {Component}),
                     Put(cp, Component,
                         Storage(cp[Component].elem, Erase(cp[Component].map, entity)))),
            None, 0)
    ELSE Ok(reg, None, 0)

\* Registry::remove
remove(reg, entity, Component) ==
  IF entity \in DOMAIN reg.entities /\ Component \in reg.entities[entity]
    THEN LET es1 == Put(reg.entities, entity, reg.entities[entity] \ {Component})
             cp == reg.component_pool
         IN IF Component \notin DOMAIN cp
              THEN Fatal(Registry(reg.next, es1, cp))
              ELSE LET map1 == Erase(cp[Component].map, entity) IN
                   Ok(Registry(reg.next, es1,
                         IF DOMAIN map1 = {}
                           THEN Erase(cp, Component)
                           ELSE Put(cp, Component, Storage(cp[Component].elem, map1))),
                      None, 0)
    ELSE Ok(reg, None, 0)

\* Registry::patch: the Option<&mut Component> the Patch handle wraps, as the
\* value it points at.
patch(reg, entity, Component) ==
  LET cp == reg.component_pool IN
  IF Component \in DOMAIN cp
    THEN LET m == downcast(cp[Component], Component) IN
         IF m = None THEN Fatal(reg)
         ELSE IF entity \in DOMAIN m[1]
                THEN Ok(reg, Some(m[1][entity]), 0)
                ELSE Ok(reg, None, 0)
    ELSE Ok(reg, None, 0)

\* patch + with whose closure runs on a copy: nothing is written back.
patch_with_copy(reg, entity, Component, func) ==
  LET p == patch(reg, entity, Component) IN
  IF p.panic THEN p
  ELSE IF p.ret = None THEN Ok(reg, None, 0)
  ELSE Ok(reg, None, 1)

\* patch + with whose closure runs on every value of the pool, not only on
\* the entity's.
patch_with_all(reg, entity, Component, func) ==
  LET p == patch(reg, entity, Component) IN
  IF p.panic THEN p
  ELSE IF p.ret = None THEN Ok(reg, None, 0)
  ELSE LET cp == reg.component_pool
           map1 == [e \in DOMAIN cp[Component].map |-> func[cp[Component].map[e]]]
       IN Ok(Registry(reg.next, reg.entities,
                Put(cp, Component, Storage(cp[Component].elem, map1))),
             None, 1)

\* Registry::patch followed by Patch::with(func).
patch_with(reg, entity, Component, func) ==
  LET p == patch(reg, entity, Component) IN
  IF p.panic THEN p
  ELSE IF p.ret = None THEN Ok(reg, None, 0)
  ELSE LET cp == reg.component_pool
           map1 == Put(cp[Component].map, entity, func[p.ret[1]])
       IN Ok(Registry(reg.next, reg.entities,
                Put(cp, Component, Storage(cp[Component].elem, map1))),
             None, 1)

\* replace that attaches the value when the entity has a record without the
\* type (an add-or-replace).
replace_inserts(reg, entity, Component, new_component) ==
  IF entity \in DOMAIN reg.entities /\ Component \notin reg.entities[entity]
    THEN add(reg, entity, Component, new_component)
    ELSE patch_with(reg, entity, Component, [v \in Values |-> new_component])

\* Registry::replace
replace(reg, entity, Component, new_component) ==
  patch_with(reg, entity, Component, [v \in Values |-> new_component])

\* Registry::get
get(reg, entity, Component) ==
  LET cp == reg.component_pool IN
  IF Component \in DOMAIN cp
    THEN LET m == downcast(cp[Component], Component) IN
         IF m = None THEN Fatal(reg)
         ELSE IF entity \in DOMAIN m[1]
                THEN Ok(reg, Some(m[1][entity]), 0)
                ELSE Ok(reg, None, 0)
    ELSE Ok(reg, None, 0)

\* create_entity_with whose adds run from the last component of the tuple to
\* the first.
RECURSIVE add_each_reversed(_, _, _)
add_each_reversed(reg, entity, components) ==
  IF components = <<>> THEN Ok(reg, Some(entity), 0)
  ELSE LET n == Len(components)
           r == add(reg, entity, components[n][1], components[n][2])
       IN IF r.panic THEN r
          ELSE add_each_reversed(r.reg, entity, SubSeq(components, 1, n - 1))

\* ComponentTuple::create_entity_with: the adds after the create, in
\* argument order.  components is a sequence of <<type, value>>.
RECURSIVE add_each(_, _, _)
add_each(reg, entity, components) ==
  IF components = <<>> THEN Ok(reg, Some(entity), 0)
  ELSE LET r == add(reg, entity, Head(components)[1], Head(components)[2]) IN
       IF r.panic THEN r ELSE add_each(r.reg, entity, Tail(components))

\* Registry::create_with
create_with(reg, components, overflow_checks) ==
  LET c == create(reg, overflow_checks) IN
  IF c.panic THEN c ELSE add_each(c.reg, c.ret[1], components)

\* get_components that hands back the components only when the entity has
\* all of them, and None in every slot otherwise.
get_components_all_or_none(reg, entity, Ts) ==
  IF \A i \in 1..Len(Ts) : get(reg, entity, Ts[i]).ret # None
    THEN [i \in 1..Len(Ts) |-> get(reg, entity, Ts[i]).ret]
    ELSE [i \in 1..Len(Ts) |-> None]

\* ComponentSet::get_components (Registry::get_all): one Option per type.
get_components(reg, entity, Ts) ==
  [i \in 1..Len(Ts) |-> get(reg, entity, Ts[i]).ret]

\* view_entities that lists the keys of the first pool without testing the
\* other pools for each of them.
view_entities_first_pool(reg, Ts) ==
  LET cp == reg.component_pool IN
  IF \E i \in 1..Len(Ts) : Ts[i] \notin DOMAIN cp THEN {}
  ELSE { <<entity, [i \in 1..Len(Ts) |->
                      IF entity \in DOMAIN cp[Ts[i]].map
                        THEN cp[Ts[i]].map[entity] ELSE cp[Ts[1]].map[entity]]>> :
           entity \in DOMAIN cp[Ts[1]].map }

\* view_entities that reads every slot of a row from the first storage.
view_entities_first_slot(reg, Ts) ==
  LET cp == reg.component_pool IN
  IF \E i \in 1..Len(Ts) : Ts[i] \notin DOMAIN cp THEN {}
  ELSE { <<entity, [i \in 1..Len(Ts) |-> cp[Ts[1]].map[entity]]>> :
           entity \in { e \in DOMAIN cp[Ts[1]].map :
                          \A i \in 1..Len(Ts) : e \in DOMAIN cp[Ts[i]].map } }

\* view_entities that tests only the first two storages for each key of the
\* first.
view_entities_two_pools(reg, Ts) ==
  LET cp == reg.component_pool IN
  IF \E i \in 1..Len(Ts) : Ts[i] \notin DOMAIN cp THEN {}
  ELSE { <<entity, [i \in 1..Len(Ts) |->
                      IF entity \in DOMAIN cp[Ts[i]].map
                        THEN cp[Ts[i]].map[entity] ELSE cp[Ts[1]].map[entity]]>> :
           entity \in { e \in DOMAIN cp[Ts[1]].map :
                          \A i \in 1..Len(Ts) : i <= 2 => e \in DOMAIN cp[Ts[i]].map } }

\* ComponentSet::view_entities (Registry::view).  Ts is the list of
\* requested types; the rows of the returned Vec as a set, the Vec's order
\* being the iteration order of a HashMap.
view_entities(reg, Ts) ==
  LET cp == reg.component_pool
      storages == [i \in 1..Len(Ts) |->
                     IF Ts[i] \in DOMAIN cp THEN downcast(cp[Ts[i]], Ts[i]) ELSE None]
      storage_noexist == \E i \in 1..Len(Ts) : storages[i] = None
  IN IF storage_noexist THEN {}
     ELSE LET maps == [i \in 1..Len(Ts) |-> storages[i][1]] IN
          { <<entity, [i \in 1..Len(Ts) |-> maps[i][entity]]>> :
              entity \in { e \in DOMAIN maps[1] :
                             \A i \in 1..Len(Ts) : e \in DOMAIN maps[i] } }

\* ------------------------------------------------------- history variables

\* The record of one call that returned r: the operation, what it returned,
\* whether the entity it named had a record and whether that record held the
\* named type before the call (for destroy: held any type; for a create:
\* whether the returned id had a record), how often the closure ran, whether
\* the call panicked, and the directory entries it deleted and created.
Call(op, r, existed, owned) ==
  [op |-> op, ret |-> r.ret, existed |-> existed, owned |-> owned,
   called |-> r.called, panic |-> r.panic,
   dropped |-> (DOMAIN component_pool) \ (DOMAIN r.reg.component_pool),
   created |-> (DOMAIN r.reg.component_pool) \ (DOMAIN component_pool)]

Owns(entity, T) == entity \in DOMAIN entities /\ T \in entities[entity]

\* stored without the keys of one entity.
Forget(entity, Ts) == [k \in (DOMAIN stored) \ ({entity} \X Ts) |-> stored[k]]

\* The components a create_with tuple attaches to its fresh entity: for
\* each type the first value given for it.
RECURSIVE Attached(_, _, _)
Attached(st, entity, components) ==
  IF components = <<>> THEN st
  ELSE LET k == <<entity, Head(components)[1]>> IN
       Attached(IF k \in DOMAIN st THEN st ELSE Put(st, k, Head(components)[2]),
                entity, Tail(components))

\* The component tuples create_with is called with.
Tuples == UNION { [1..n -> ComponentId \X Values] : n \in 1..MaxTuple }

\* The type lists get_all and view are called with.
TypeLists == UNION { [1..n -> ComponentId] : n \in 1..MaxTuple }

\* The largest tuple ComponentSet is implemented for.
MaxView == 4

\* Component types for views over up to MaxView different types.
ViewTypes == ComponentId \cup {"Color", "Name"}

\* The lists of different types view is called with.
ViewLists ==
  UNION { { Ts \in [1..n -> ViewTypes] : \A i, j \in 1..n : i # j => Ts[i] # Ts[j] } :
          n \in 1..MaxView }

\* ------------------------------------------------------------------ state

Init ==
  /\ next = new.next
  /\ entities = new.entities
  /\ component_pool = new.component_pool
  /\ last = Call("new", Ok(new, None, 0), FALSE, FALSE)
  /\ issued = {}
  /\ stored = EmptyMap
  /\ destroying = None

\* The registry after a call that returned r.
Becomes(r) ==
  /\ next' = r.reg.next
  /\ entities' = r.reg.entities
  /\ component_pool' = r.reg.component_pool

\* A panic ends the program, and &mut self admits no call while another
\* runs.
Running == ~last.panic /\ destroying = None

\* The caps on create: at most MaxLive records, and after a wrap of the id
\* counter only the ids below MaxReissue are issued again.
CanCreate ==
  /\ Running
  /\ Cardinality(DOMAIN entities) < MaxLive
  /\ EntityMax \in issued => next < MaxReissue

\* The build's overflow setting, which shows only when the increment
\* overflows: either, unless the build has already wrapped the counter (the
\* largest id was issued) and so has no overflow checks.
Builds == IF next = EntityMax /\ EntityMax \notin issued THEN BOOLEAN ELSE {FALSE}

DoCreate ==
  \E overflow_checks \in Builds :
  LET r == create(self, overflow_checks) IN
  /\ Becomes(r)
  /\ last' = Call("create", r, next \in DOMAIN entities, FALSE)
  /\ issued' = IF r.panic THEN issued ELSE issued \cup {r.ret[1]}
  /\ stored' = IF r.panic THEN stored ELSE Forget(next, ComponentId)
  /\ UNCHANGED destroying

DoCreateWith ==
  \E components \in Tuples, overflow_checks \in Builds :
    LET r == create_with(self, components, overflow_checks) IN
    /\ Becomes(r)
    /\ last' = Call("create_with", r, next \in DOMAIN entities, FALSE)
    /\ issued' = IF r.panic THEN issued ELSE issued \cup {r.ret[1]}
    /\ stored' = IF r.panic THEN stored
                 ELSE Attached(Forget(next, ComponentId), next, components)
    /\ UNCHANGED destroying

\* create / create_with while the id counter is below its largest value.
Create == CanCreate /\ next < EntityMax /\ DoCreate

CreateWith == CanCreate /\ next < EntityMax /\ DoCreateWith

\* create / create_with on the largest id: the increment overflows.
CreateOverflow == CanCreate /\ next = EntityMax /\ DoCreate

CreateWithOverflow == CanCreate /\ next = EntityMax /\ DoCreateWith

Destroy ==
  /\ Running
  /\ \E entity \in Entity :
       LET r == destroy(self, entity) IN
       /\ Becomes(r)
       /\ last' = Call("destroy", r, entity \in DOMAIN entities,
                       entity \in DOMAIN entities /\ entities[entity] # {})
       /\ stored' = IF entity \in DOMAIN entities
                      THEN Forget(entity, entities[entity]) ELSE stored
       /\ UNCHANGED <<issued, destroying>>

Add ==
  /\ Running
  /\ \E entity \in Entity, T \in ComponentId, new_component \in Values :
       LET r == add(self, entity, T, new_component) IN
       /\ Becomes(r)
       /\ last' = Call("add", r, entity \in DOMAIN entities, Owns(entity, T))
       /\ stored' = IF entity \in DOMAIN entities /\ ~Owns(entity, T)
                      THEN Put(stored, <<entity, T>>, new_component) ELSE stored
       /\ UNCHANGED <<issued, destroying>>

Remove ==
  /\ Running
  /\ \E entity \in Entity, T \in ComponentId :
       LET r == remove(self, entity, T) IN
       /\ Becomes(r)
       /\ last' = Call("remove", r, entity \in DOMAIN entities, Owns(entity, T))
       /\ stored' = IF Owns(entity, T) THEN Forget(entity, {T}) ELSE stored
       /\ UNCHANGED <<issued, destroying>>

Replace ==
  /\ Running
  /\ \E entity \in Entity, T \in ComponentId, new_component \in Values :
       LET r == replace(self, entity, T, new_component) IN
       /\ Becomes(r)
       /\ last' = Call("replace", r, entity \in DOMAIN entities, Owns(entity, T))
       /\ stored' = IF r.called = 1 /\ <<entity, T>> \in DOMAIN stored
                      THEN Put(stored, <<entity, T>>, new_component) ELSE stored
       /\ UNCHANGED <<issued, destroying>>

PatchWith ==
  /\ Running
  /\ \E entity \in Entity, T \in ComponentId, func \in Funcs :
       LET r == patch_with(self, entity, T, func) IN
       /\ Becomes(r)
       /\ last' = Call("patch", r, entity \in DOMAIN entities, Owns(entity, T))
       /\ stored' = IF r.called = 1 /\ <<entity, T>> \in DOMAIN stored
                      THEN Put(stored, <<entity, T>>, func[stored[<<entity, T>>]])
                      ELSE stored
       /\ UNCHANGED <<issued, destroying>>

\* Registry::destroy taken one step at a time.  The call starts: the lookup
\* of the entity's record gives the component ids to loop over, none when
\* there is no record.
DestroyBegin ==
  /\ Running
  /\ \E entity \in Entity :
       destroying' = Some([entity |-> entity,
                           ids |-> IF entity \in DOMAIN entities
                                     THEN entities[entity] ELSE {},
                           visited |-> <<>>,
                           pool0 |-> component_pool])
  /\ UNCHANGED <<next, entities, component_pool, last, issued, stored>>

\* One iteration of the loop, on any of the ids not yet visited: a HashSet
\* is iterated in no particular order.
DestroyIteration ==
  /\ ~last.panic
  /\ destroying # None
  /\ \E component_id \in destroying[1].ids :
       LET d == destroying[1]
           r == destroy_iteration(component_pool, component_id, d.entity)
       IN /\ component_pool' = r.cp
          /\ destroying' = Some([d EXCEPT !.ids = @ \ {component_id},
                                          !.visited = Append(@, component_id)])
          /\ last' = IF r.panic
                       THEN [last EXCEPT !.op = "destroy", !.panic = TRUE]
                       ELSE last
  /\ UNCHANGED <<next, entities, issued, stored>>

\* After the loop: entities.remove(&entity), and the call returns.
DestroyFinish ==
  /\ ~last.panic
  /\ destroying # None
  /\ loop_done(destroying[1])
  /\ LET d == destroying[1]
         r == Ok(Registry(next, Erase(entities, d.entity), component_pool), None, 0)
     IN /\ Becomes(r)
        /\ last' = [Call("destroy", r, d.entity \in DOMAIN entities,
                         d.entity \in DOMAIN entities /\ entities[d.entity] # {})
                      EXCEPT !.dropped = (DOMAIN d.pool0) \ (DOMAIN component_pool)]
        /\ stored' = IF d.entity \in DOMAIN entities
                       THEN Forget(d.entity, entities[d.entity]) ELSE stored
  /\ destroying' = None
  /\ UNCHANGED issued

\* The registry while the id counter stays below its largest value.
Next ==
  \/ Create
  \/ CreateWith
  \/ Destroy
  \/ Add
  \/ Remove
  \/ Replace
  \/ PatchWith

Spec == Init /\ [][Next]_vars

\* The registry with no cap on the id counter.
NextOverflow ==
  \/ Create
  \/ CreateWith
  \/ CreateOverflow
  \/ CreateWithOverflow
  \/ Destroy
  \/ Add
  \/ Remove
  \/ Replace
  \/ PatchWith

SpecOverflow == Init /\ [][NextOverflow]_vars

\* The registry with destroy taken step by step.
NextDestroy ==
  \/ Create
  \/ CreateWith
  \/ DestroyBegin
  \/ DestroyIteration
  \/ DestroyFinish
  \/ Add
  \/ Remove
  \/ Replace
  \/ PatchWith

\* A call that has started runs on: nothing else can be scheduled in its
\* place.
SpecDestroy ==
  /\ Init /\ [][NextDestroy]_vars
  /\ WF_vars(DestroyIteration)
  /\ WF_vars(DestroyFinish)

\* The registries with MaxLive entities that create_with and add build:
\* each entity owns any set of the types of ViewTypes, and each pool holds
\* the entities owning its type.  What a view's rows hold is C17's subject;
\* here every component has the same value.
InitView ==
  \E es \in [1..MaxLive -> SUBSET ViewTypes] :
    LET owners(T) == { e \in 1..MaxLive : T \in es[e] }
        value == CHOOSE v \in Values : TRUE
    IN /\ next = MaxLive + 1
       /\ entities = es
       /\ component_pool = [T \in { U \in ViewTypes : owners(U) # {} } |->
                              Storage(T, [e \in owners(T) |-> value])]
       /\ last = Call("create_with", Ok(Registry(MaxLive + 1, es, component_pool),
                                        Some(MaxLive), 0), FALSE, FALSE)
       /\ issued = 1..MaxLive
       /\ stored = [k \in { k \in (1..MaxLive) \X ViewTypes : k[2] \in es[k[1]] } |-> value]
       /\ destroying = None

\* Registry::view over a list of types: the call hands its rows to the
\* caller and leaves the registry alone.
View ==
  /\ Running
  /\ \E Ts \in ViewLists :
       last' = Call("view", Ok(self, None, 0), FALSE,
                    view_entities(self, Ts) # {})
  /\ UNCHANGED <<next, entities, component_pool, issued, stored, destroying>>

NextView == View

\* Views of the registries of InitView.
SpecView == InitView /\ [][NextView]_vars

\* ------------------------------------------------------------- properties

\* The registry after a step.
self1 == Registry(next', entities', component_pool')

\* The step is a call of op on an entity, naming type T where it names one,
\* that returned r.
IsCall(op, entity, T, r) ==
  /\ last'.op = op
  /\ last'.existed = (entity \in DOMAIN entities)
  /\ T \in ComponentId => last'.owned = Owns(entity, T)
  /\ Becomes(r)

\* The entities with an entry in the pool of T.
PoolKeys(T) ==
  IF T \in DOMAIN component_pool THEN DOMAIN component_pool[T].map ELSE {}

\* The entities whose record holds T.
Holders(T) == { e \in DOMAIN entities : T \in entities[e] }

C3_AddIdempotent ==
  [][(last'.op = "add" /\ last'.owned)
       => /\ UNCHANGED reg_vars
          /\ \A e \in Entity, T \in ComponentId :
               get(self1, e, T).ret = get(self, e, T).ret]_vars

\* An add on an entity that already owned the type has just run, and the
\* entity owns a component.
C3_Witness ==
  /\ last.op = "add" /\ last.owned
  /\ \E e \in DOMAIN entities, T \in ComponentId : get(self, e, T).ret # None

C6_ViewCorrect ==
  \A Ts \in TypeLists :
    /\ { row[1] : row \in view_entities(self, Ts) }
         = { e \in Entity : \A i \in 1..Len(Ts) : get(self, e, Ts[i]).ret # None }
    /\ (\E i \in 1..Len(Ts) : Ts[i] \notin DOMAIN component_pool)
         => view_entities(self, Ts) = {}

\* A view over two different types returns a row while the pool of its first
\* type holds an entity the view leaves out.
C6_Witness ==
  \E Ts \in TypeLists :
    /\ Len(Ts) = 2 /\ Ts[1] # Ts[2]
    /\ view_entities(self, Ts) # {}
    /\ \E e \in PoolKeys(Ts[1]) : e \notin { row[1] : row \in view_entities(self, Ts) }

C8_IdsStrictlyIncreasing ==
  [][(last'.op \in {"create", "create_with"})
       => /\ ~last'.panic
          /\ last'.ret # None
          /\ \A id \in issued : last'.ret[1] > id
          /\ ~last'.existed]_vars

\* C9: exists(0) is false in every state, 0 is a key neither of the entity
\* table nor of any pool, and no create or create_with returns 0.
C9_NullEntityNeverValid ==
  /\ ~exists(self, NULL_ENTITY)
  /\ \A T \in DOMAIN component_pool : NULL_ENTITY \notin DOMAIN component_pool[T].map
  /\ NULL_ENTITY \notin issued
  /\ (last.op \in {"create", "create_with"} /\ last.ret # None)
       => last.ret[1] # NULL_ENTITY

C11_NoFatalReachable ==
  /\ ~last.panic
  /\ \A T \in DOMAIN component_pool : downcast(component_pool[T], T) # None
  /\ \A e \in DOMAIN entities : entities[e] \subseteq DOMAIN component_pool
  /\ \A e \in Entity :
       /\ ~destroy(self, e).panic
       /\ \A T \in ComponentId :
            /\ ~remove(self, e, T).panic
            /\ ~get(self, e, T).panic
            /\ ~patch(self, e, T).panic
            /\ \A v \in Values : ~add(self, e, T, v).panic

\* A destroy of an entity has just run through a loop that deleted the pool
\* of every type, each iteration after the first finding the directory
\* without the pools deleted before it.
C11_Witness ==
  /\ last.op = "destroy" /\ last.existed /\ last.owned
  /\ last.dropped = ComponentId
  /\ ~last.panic

\* The registry a caller has after calling add(entity, c) for the first n
\* components of a tuple, one call after the other.
RECURSIVE after_adds(_, _, _, _)
after_adds(reg, entity, components, n) ==
  IF n = 0 THEN reg
  ELSE add(after_adds(reg, entity, components, n - 1),
           entity, components[n][1], components[n][2]).reg

C13_RemoveFrame ==
  [][\A e \in Entity, T \in ComponentId :
       (Owns(e, T) /\ IsCall("remove", e, T, remove(self, e, T)))
         => /\ get(self1, e, T).ret = None
            /\ exists(self1, e)
            /\ T \notin entities'[e]
            /\ \A T2 \in entities[e] \ {T} :
                 /\ T2 \in entities'[e]
                 /\ get(self1, e, T2).ret # None
                 /\ get(self1, e, T2).ret = get(self, e, T2).ret]_vars

\* A remove of an owned component has just run on the only entity there is,
\* and that entity still owns a component of another type.
C13_Witness ==
  /\ last.op = "remove" /\ last.existed /\ last.owned
  /\ \E e \in Entity :
       /\ DOMAIN entities = {e}
       /\ entities[e] # {}
       /\ \A T \in entities[e] : get(self, e, T).ret # None

C16_DestroyOrder ==
  /\ [][\A e \in DOMAIN entities :
          e \notin DOMAIN entities'
            => /\ destroying # None /\ destroying' = None
               /\ destroying[1].entity = e
               /\ destroying[1].ids = {}
               /\ Len(destroying[1].visited) = Cardinality(entities[e])
               /\ { destroying[1].visited[i] : i \in 1..Len(destroying[1].visited) }
                    = entities[e]
               /\ \A T \in ComponentId : e \notin PoolKeys(T)
               /\ \A T \in DOMAIN component_pool : PoolKeys(T) # {}
               /\ self1 = destroy(Registry(next, entities, destroying[1].pool0), e).reg]_vars
  /\ [][(destroying # None /\ destroying' # None) => entities' = entities]_vars
  /\ [](destroying # None
          => \A i, j \in 1..Len(destroying[1].visited) :
               i # j => destroying[1].visited[i] # destroying[1].visited[j])
  /\ (destroying # None) ~> (destroying = None)

\* A destroy of an entity with several types is midway: one iteration has
\* run and deleted a pool, another is to come, and the record is still in
\* the table.
C16_Witness ==
  /\ destroying # None
  /\ Len(destroying[1].visited) = 1
  /\ destroying[1].ids # {}
  /\ DOMAIN component_pool # DOMAIN destroying[1].pool0
  /\ destroying[1].entity \in DOMAIN entities

\* C17: in every row (E, (v1, ..., vn)) of view over (T1, ..., Tn), vi is the
\* value get<Ti>(E) returns in the same state, for every i; and no two rows
\* of one result have the same entity.
C17_ViewRowsMatchGet ==
  \A Ts \in TypeLists :
    LET rows == view_entities(self, Ts) IN
    /\ \A row \in rows :
         /\ Len(row[2]) = Len(Ts)
         /\ \A i \in 1..Len(Ts) : get(self, row[1], Ts[i]).ret = Some(row[2][i])
    /\ \A r1, r2 \in rows : r1[1] = r2[1] => r1 = r2

\* A view over two different types returns two rows, one of them with
\* different values in its two slots.
C17_Witness ==
  \E Ts \in TypeLists :
    /\ Len(Ts) = 2 /\ Ts[1] # Ts[2]
    /\ Cardinality(view_entities(self, Ts)) = 2
    /\ \E row \in view_entities(self, Ts) : row[2][1] # row[2][2]

\* Entity F is after the step what it was before it: it exists or not as
\* before, its record is the same, and get returns the same for every type.
Same(F) ==
  /\ exists(self1, F) = exists(self, F)
  /\ F \in DOMAIN entities => entities'[F] = entities[F]
  /\ \A U \in ComponentId : get(self1, F, U).ret = get(self, F, U).ret

\* The step is a call of add, remove, replace, patch + with or destroy on
\* entity e.
Targets(e) ==
  \/ IsCall("destroy", e, "", destroy(self, e))
  \/ \E T \in ComponentId :
       \/ IsCall("remove", e, T, remove(self, e, T))
       \/ \E v \in Values :
            \/ IsCall("add", e, T, add(self, e, T, v))
            \/ IsCall("replace", e, T, replace(self, e, T, v))
       \/ \E f \in Funcs : IsCall("patch", e, T, patch_with(self, e, T, f))

\* C18: a call of add, remove, replace, patch + with or destroy on entity E
\* leaves the id counter as it was and, for every entity F other than E,
\* leaves exists(F), the record of F and get<U>(F) for every type U as they
\* were, also when the call creates or deletes a pool.
C18_EntityIsolation ==
  [][(last'.op \in {"add", "remove", "replace", "patch", "destroy"})
       => /\ next' = next
          /\ \/ UNCHANGED <<entities, component_pool>>
             \/ \A e \in Entity :
                  \/ \A F \in Entity \ {e} : Same(F)
                  \/ ~Targets(e)]_vars

\* A remove has just deleted a pool, or an add created one, while two
\* entities have entries in the pool of another type.
C18_Witness ==
  /\ \/ last.op = "remove" /\ last.dropped # {}
     \/ last.op = "add" /\ last.created # {}
  /\ \E T \in DOMAIN component_pool : Cardinality(PoolKeys(T)) = 2

Swap(Ts, i, j) == [Ts EXCEPT ![i] = Ts[j], ![j] = Ts[i]]

\* C20: in every state, exchanging two types of the requested list leaves
\* the set of entities view returns as it is: (A, B) and (B, A) give the
\* same entities, and so does every permutation of three and of four types,
\* a permutation being a sequence of exchanges.
C20_ViewOrderIndependent ==
  \A Ts \in ViewLists :
    \A i, j \in 1..Len(Ts) :
      i < j => { row[1] : row \in view_entities(self, Ts) }
                 = { row[1] : row \in view_entities(self, Swap(Ts, i, j)) }

\* A view has just returned rows, and there is a list of three types over
\* which view returns an entity although the pool of its first type and the
\* pool of its second type differ and the first holds an entity the view
\* leaves out.
C20_Witness ==
  /\ last.op = "view" /\ last.owned
  /\ \E Ts \in ViewLists :
       /\ Len(Ts) = 3
       /\ view_entities(self, Ts) # {}
       /\ PoolKeys(Ts[1]) # PoolKeys(Ts[2])
       /\ PoolKeys(Ts[1]) # { row[1] : row \in view_entities(self, Ts) }

====
